---------------------------- MODULE Spec2Model ----------------------------
(***************************************************************************)
(* Gwers: the per-thread function-stack recorder (Gwers::Trace), the       *)
(* exception record (Gwers::Exception) and the root catch boundary         *)
(* (Gwers::Exception::base_catch).                                         *)
(*                                                                         *)
(* The recorder and the boundary are translated from the library sources.  *)
(* The callables handed to base_catch (the base function and the handler)  *)
(* are the environment: they enter and leave instrumented scopes, build    *)
(* and throw exception objects, return.  All state is per thread.          *)
(***************************************************************************)
EXTENDS Integers, Sequences, FiniteSets

(***************************************************************************)
(* Bounds of the exploration.                                              *)
(***************************************************************************)
\* the most Trace objects alive at once on one thread
MaxDepth == 2
\* the longest recorded stack (a locked stack keeps growing with every push)
MaxStack == 3

Threads == {"t1", "t2"}
\* the thread the single-threaded specification runs
Main == "t1"

\* function strings handed to the Trace constructor
Labels == {"first", "second"}
\* line numbers handed to exception constructors
Lines == {33, 66}

(***************************************************************************)
(* Exception objects.  One record shape for every thrown value:            *)
(*   dyn    the dynamic type of the object                                 *)
(*   gwers  it has a public Gwers::Exception base (or is one)              *)
(*   std    it has a public std::exception base (or is one)                *)
(*   who, what, line   the fields of the Gwers::Exception subobject        *)
(*   msg    what the object's virtual std::exception::what() returns       *)
(***************************************************************************)
Obj(dyn, g, s, who, what, line, msg) ==
    [dyn |-> dyn, gwers |-> g, std |-> s,
     who |-> who, what |-> what, line |-> line, msg |-> msg]

NoException == Obj("none", FALSE, FALSE, "", "", 0, "")

\* Exception::Exception(who, what, line): the three fields are stored as given.
Exception_Exception(who, what, line) ==
    Obj("Gwers::Exception", TRUE, FALSE, who, what, line, "")

\* struct Fake : public Gwers::Exception { Fake(int l): Exception("unit::exception","fake",l) {} };
\* the shape every GWX_EXCEPTION(X) declaration has: who and what fixed by the declaration.
Fake(l) ==
    [Exception_Exception("unit::exception", "fake", l) EXCEPT !.dyn = "Fake"]

\* A variant that is also a host-runtime error:
\* struct Both : public Gwers::Exception, public std::runtime_error.
Both(l) ==
    [Exception_Exception("mod::Thing", "Bad", l)
        EXCEPT !.dyn = "Both", !.std = TRUE, !.msg = "bad thing"]

\* the variants assert<X> can be instantiated with
Variants == {"Fake", "Both"}

Make(X, l) == IF X = "Fake" THEN Fake(l) ELSE Both(l)

\* what std::vector::at throws in base_func_std, and a plain std::exception
OutOfRange == Obj("std::out_of_range", FALSE, TRUE, "", "", 0, "vector::_M_range_check")
StdException == Obj("std::exception", FALSE, TRUE, "", "", 0, "std::exception")

\* throw int(66)
Int66 == Obj("int", FALSE, FALSE, "", "", 66, "")

GwersObjects ==
    {Exception_Exception("test_who", "test_what", l) : l \in Lines}
        \cup {Make(X, l) : X \in Variants, l \in Lines}

ForeignObjects == {OutOfRange, StdException, Int66}

\* a copy constructor that leaves the line number behind
Exception_copy_no_line(o) ==
    Obj("Gwers::Exception", TRUE, FALSE, o.who, o.what, 0, "")

\* catch (Exception e): the handler's parameter is copy-constructed from the
\* Gwers::Exception subobject of the thrown object (the implicit copy constructor:
\* it copies the three fields and does not call Trace::lock).
Exception_copy(o) ==
    Obj("Gwers::Exception", TRUE, FALSE, o.who, o.what, o.line, "")

\* catch (std::exception e): the parameter is copy-constructed from the
\* std::exception subobject; the copy is a plain std::exception, whose what()
\* is the base class's own string.
StdException_copy(o) ==
    Obj("std::exception", FALSE, TRUE, "", "", 0, "std::exception")

(***************************************************************************)
(* Gwers::Trace: the recorder operations, as functions of the thread's     *)
(* _stack and _lock.                                                       *)
(***************************************************************************)
Front(s) == SubSeq(s, 1, Len(s) - 1)

\* the function string put at the front of the vector
Trace_Trace_front(st, fname) == <<fname>> \o st

\* a constructor that records nothing
Trace_Trace_nothing(st, fname) == st

\* Trace::Trace(fname): _stack.emplace_back(fname)
Trace_Trace(st, fname) == Append(st, fname)

\* a destructor that pops whatever _lock says
Trace_dtor_ignores_lock(st, lk) == Front(st)

\* a destructor that never pops
Trace_dtor_never_pops(st, lk) == st

\* a destructor that removes the oldest function string, not the newest
Trace_dtor_pop_front(st, lk) == IF ~lk THEN Tail(st) ELSE st

\* Trace::~Trace(): if (!_lock) _stack.pop_back()
\* pop_back on an empty vector is undefined: reported by Trace_dtor_undefined.
Trace_dtor(st, lk) == IF ~lk THEN Front(st) ELSE st

Trace_dtor_undefined(st, lk) == ~lk /\ st = <<>>

\* a lock that flips _lock
Trace_lock_toggles(lk) == ~lk

\* Trace::lock(): _lock = true
Trace_lock(lk) == TRUE

\* a flush that clears the vector and leaves _lock as it is
Trace_flush_lock_kept(lk) == lk

\* a flush that removes only the newest function string
Trace_flush_stack_pops(st) == Front(st)

\* Trace::flush(): _stack.clear(); _lock = false
Trace_flush_stack(st) == <<>>

Trace_flush_lock(lk) == FALSE


(***************************************************************************)
(* State, per thread.                                                      *)
(*   _stack, _lock   Trace's thread_local statics                          *)
(*   pc       where the thread is: "idle" outside base_catch, "start" at   *)
(*            the first step of base(), "base" inside base(), "unwind"     *)
(*            while a thrown exception unwinds base(), "hstart" at the     *)
(*            first step of handler(), "handler" inside handler()          *)
(*   scopes   the function strings of the Trace objects alive, oldest first*)
(*   thrown   the exception object in flight or being handled              *)
(*   hargs    the arguments of the last handler call                       *)
(*   calls    how often this base_catch call has called base and handler   *)
(*   outcome  how base() ended in the last base_catch call: "returned" or  *)
(*            "threw" ("running" until then, "none" before the first call) *)
(*   pre      the recorder as base_catch found it (kept during "start")    *)
(*   atRaise  the recorder and the live scopes when the exception in       *)
(*            flight was thrown, and whether a scope was entered since     *)
(*   hist     the pushes and releases since the last flush, while they     *)
(*            have the shape "N pushes, then k releases, no lock"          *)
(*   ub       the thread has executed pop_back on an empty vector          *)
(*   constructed   Exception::Exception has run in this base_catch call    *)
(*   guard    the assert call or guard macro base() has just executed: its *)
(*            arguments, how often its condition (or function) was         *)
(*            evaluated, the recorder before it (kept for one step)        *)
(*   last     the Trace operation just called directly, outside            *)
(*            base_catch: the recorder before it, how often it was called  *)
(*            in a row, the recorder after the first of these calls        *)
(*   byMacro  the exception in flight was thrown by the expansion of a     *)
(*            guard macro (kept until the handler has started)             *)
(*   trying   the GWX_TRY statement base() is executing, or whose          *)
(*            statement threw: the depth of its site, its X and L, the     *)
(*            exception its statement threw and the functions that were    *)
(*            active then (kept until the handler has started)             *)
(*   plain    the number of active functions whose GWX_BEGIN declared no   *)
(*            Trace object                                                 *)
(* and for the build:                                                      *)
(*   DEBUG    the library and its user are compiled with -D DEBUG          *)
(*   DTRACE   ... with -D DTRACE                                           *)
(***************************************************************************)
VARIABLES _stack, _lock, pc, scopes, thrown, hargs, calls, outcome,
          pre, atRaise, hist, ub, constructed, guard, last, DEBUG,
          byMacro, trying, plain, DTRACE, fcall,
          _runs, UnitTest_count, upc, run, test, iter, called, visited, rets,
          passline, uub

\* the state of the unit test harness
harness == <<_runs, UnitTest_count, upc, run, test, iter, called, visited, rets,
             passline, uub>>

\* the state of the code around base_catch and the recorder
apart == <<fcall, harness>>

vars == <<_stack, _lock, pc, scopes, thrown, hargs, calls, outcome,
          pre, atRaise, hist, ub, constructed, guard, last, DEBUG,
          byMacro, trying, plain, DTRACE, apart>>

\* statics that are one object for the whole process
Trace_statics_shared(t) == Main

\* thread_local Trace::_stack, Trace::_lock: the instance that code running
\* on thread t reads and writes is that thread's own
Trace_statics(t) == t

\* Trace::begin() .. Trace::end(): the recorded strings, oldest first
snapshot(t) == [i \in 1..Len(_stack[t]) |-> _stack[t][i]]

NoArgs == [type |-> "none", e |-> <<>>, std |-> <<>>]
NoPre == [stack |-> <<>>, lock |-> FALSE, set |-> FALSE]
NoRaise == [stack |-> <<>>, active |-> <<>>, frozen |-> FALSE,
            entered |-> FALSE, set |-> FALSE]
NoGuard == [op |-> "none", X |-> "", line |-> 0, cond |-> TRUE, evals |-> 0,
            v |-> 0, c |-> "", r |-> 0, stack |-> <<>>, lock |-> FALSE]
Recorder(t) == [stack |-> _stack[t], lock |-> _lock[t]]
NoLast == [op |-> "none", stack |-> <<>>, lock |-> FALSE, reps |-> 0,
           first |-> [stack |-> <<>>, lock |-> FALSE]]
NoTry == [state |-> "none", depth |-> 0, X |-> "", L |-> 0,
          raised |-> NoException, deeper |-> <<>>]
NoCall == [active |-> FALSE, F |-> <<>>, args |-> <<>>, pushed |-> <<>>]
HistFresh == [labels |-> <<>>, k |-> 0, ok |-> TRUE]
HistBroken == [labels |-> <<>>, k |-> 0, ok |-> FALSE]

HistPush(h, l) ==
    IF h.ok /\ h.k = 0 THEN [h EXCEPT !.labels = Append(@, l)] ELSE HistBroken

HistRelease(h) ==
    IF h.ok /\ h.k < Len(h.labels) THEN [h EXCEPT !.k = @ + 1] ELSE HistBroken

Init ==
    /\ _stack = [t \in Threads |-> <<>>]
    /\ _lock = [t \in Threads |-> FALSE]
    /\ pc = [t \in Threads |-> "idle"]
    /\ scopes = [t \in Threads |-> <<>>]
    /\ thrown = [t \in Threads |-> NoException]
    /\ hargs = [t \in Threads |-> NoArgs]
    /\ calls = [t \in Threads |-> [base |-> 0, handler |-> 0]]
    /\ outcome = [t \in Threads |-> "none"]
    /\ pre = [t \in Threads |-> NoPre]
    /\ atRaise = [t \in Threads |-> NoRaise]
    /\ hist = [t \in Threads |-> HistFresh]
    /\ ub = [t \in Threads |-> FALSE]
    /\ constructed = [t \in Threads |-> FALSE]
    /\ guard = [t \in Threads |-> NoGuard]
    /\ last = [t \in Threads |-> NoLast]
    /\ DEBUG \in BOOLEAN
    /\ byMacro = [t \in Threads |-> FALSE]
    /\ trying = [t \in Threads |-> NoTry]
    /\ plain = [t \in Threads |-> 0]
    /\ DTRACE \in BOOLEAN
    /\ fcall = NoCall
    /\ _runs = <<>>
    /\ UnitTest_count = 0
    /\ upc = "init"
    /\ run = 0
    /\ test = 0
    /\ iter = 0
    /\ called = <<>>
    /\ visited = <<>>
    /\ rets = <<>>
    /\ passline = FALSE
    /\ uub = FALSE

\* the functions with a GWX_BEGIN that are active on thread t
Depth(t) == Len(scopes[t]) + plain[t]

InBase(t) == pc[t] \in {"start", "base"}
InHandler(t) == pc[t] \in {"hstart", "handler"}
Running(t) == (InBase(t) \/ InHandler(t) \/ pc[t] \in {"unwind", "hunwind"}) /\ ~ub[t]

\* a step that is no assert call and no guard macro, inside base_catch
Quiet(t) ==
    /\ guard' = [guard EXCEPT ![t] = NoGuard]
    /\ UNCHANGED <<last, DEBUG, DTRACE, apart>>

\* byMacro and trying are dropped by the first step of the handler
Settle(t) ==
    /\ byMacro' = [byMacro EXCEPT ![t] = IF pc[t] = "hstart" THEN FALSE ELSE @]
    /\ trying' = [trying EXCEPT ![t] = IF pc[t] = "hstart" THEN NoTry ELSE @]

\* the position after one more step of the callable that is running
Stepped(p) ==
    CASE p = "start" -> "base"
      [] p = "hstart" -> "handler"
      [] OTHER -> p

(***************************************************************************)
(* Exception::base_catch(base, handler)                                    *)
(***************************************************************************)
\* Trace::flush(); try { base(); ...
base_catch_enter(t) ==
    /\ pc[t] = "idle"
    /\ ~ub[t]
    /\ pre' = [pre EXCEPT ![t] = [stack |-> _stack[Trace_statics(t)], lock |-> _lock[Trace_statics(t)], set |-> TRUE]]
    /\ _stack' = [_stack EXCEPT ![Trace_statics(t)] = Trace_flush_stack(@)]
    /\ _lock' = [_lock EXCEPT ![Trace_statics(t)] = Trace_flush_lock(@)]
    /\ hist' = [hist EXCEPT ![t] = HistFresh]
    /\ calls' = [calls EXCEPT ![t] = [base |-> 1, handler |-> 0]]
    /\ pc' = [pc EXCEPT ![t] = "start"]
    /\ thrown' = [thrown EXCEPT ![t] = NoException]
    /\ hargs' = [hargs EXCEPT ![t] = NoArgs]
    /\ atRaise' = [atRaise EXCEPT ![t] = NoRaise]
    /\ outcome' = [outcome EXCEPT ![t] = "running"]
    /\ constructed' = [constructed EXCEPT ![t] = FALSE]
    /\ byMacro' = [byMacro EXCEPT ![t] = FALSE]
    /\ trying' = [trying EXCEPT ![t] = NoTry]
    /\ Quiet(t)
    /\ UNCHANGED <<scopes, ub, plain>>

\* the std::exception clause tried before the Gwers::Exception clause
base_catch_args_std_first(o) ==
    IF o.std
    THEN [type |-> "std", e |-> <<>>, std |-> <<StdException_copy(o)>>]
    ELSE IF o.gwers
    THEN [type |-> "gwers", e |-> <<Exception_copy(o)>>, std |-> <<>>]
    ELSE [type |-> "unknown", e |-> <<>>, std |-> <<>>]

\* the std::exception clause also hands over an Exception pointer
base_catch_args_both_pointers(o) ==
    IF o.gwers
    THEN [type |-> "gwers", e |-> <<Exception_copy(o)>>, std |-> <<>>]
    ELSE IF o.std
    THEN [type |-> "std", e |-> <<Exception_copy(o)>>, std |-> <<StdException_copy(o)>>]
    ELSE [type |-> "unknown", e |-> <<>>, std |-> <<>>]

\* The catch clauses, tried in order:
\*   catch (Exception e)      { handler(Type::gwers,&e,nullptr); }
\*   catch (std::exception e) { handler(Type::std,nullptr,&e); }
\*   catch (...)              { handler(Type::unknown,nullptr,nullptr); }
\* A pointer argument is <<>> for nullptr and <<object>> otherwise.
base_catch_args(o) ==
    IF o.gwers
    THEN [type |-> "gwers", e |-> <<Exception_copy(o)>>, std |-> <<>>]
    ELSE IF o.std
    THEN [type |-> "std", e |-> <<>>, std |-> <<StdException_copy(o)>>]
    ELSE [type |-> "unknown", e |-> <<>>, std |-> <<>>]

\* handler called whether or not base() threw
base_catch_handler_calls_always(o) == <<base_catch_args(o)>>

\* try { base(); } catch ...: the handler calls base_catch makes when base()
\* has ended with o (NoException: base() returned)
base_catch_handler_calls(o) ==
    IF o = NoException THEN <<>> ELSE <<base_catch_args(o)>>

base_catch_ended(t, o) ==
    LET hc == base_catch_handler_calls(o) IN
    /\ calls' = [calls EXCEPT ![t].handler = @ + Len(hc)]
    /\ IF hc = <<>>
       THEN /\ pc' = [pc EXCEPT ![t] = "idle"]
            /\ UNCHANGED hargs
       ELSE /\ pc' = [pc EXCEPT ![t] = "hstart"]
            /\ hargs' = [hargs EXCEPT ![t] = hc[1]]

\* base() returned: no catch clause runs, base_catch returns
base_catch_return(t) ==
    /\ InBase(t)
    /\ ~ub[t]
    /\ Depth(t) = 0
    /\ trying[t].state = "none"
    /\ outcome' = [outcome EXCEPT ![t] = "returned"]
    /\ base_catch_ended(t, NoException)
    /\ pre' = [pre EXCEPT ![t] = NoPre]
    /\ Quiet(t)
    /\ UNCHANGED <<_stack, _lock, scopes, thrown, atRaise, hist, ub, constructed,
                   byMacro, trying, plain>>

\* the exception has unwound base(): the matching clause calls handler
base_catch_catch(t) ==
    /\ pc[t] = "unwind"
    /\ ~ub[t]
    /\ Depth(t) = 0
    /\ trying[t].state # "in"
    /\ outcome' = [outcome EXCEPT ![t] = "threw"]
    /\ base_catch_ended(t, thrown[t])
    /\ Quiet(t)
    /\ UNCHANGED <<_stack, _lock, scopes, thrown, pre, atRaise, hist, ub, constructed,
                   byMacro, trying, plain>>

\* base_catch calling base() again once the handler has returned
base_catch_after_handler_retry(c) ==
    [pc |-> "start", calls |-> [c EXCEPT !.base = @ + 1]]

\* what base_catch does when handler has returned: it leaves the catch clause
\* and returns; base is not called again
base_catch_after_handler(c) == [pc |-> "idle", calls |-> c]

\* a base_catch that flushes again before it returns
base_catch_leaves_flushed(r) ==
    [stack |-> Trace_flush_stack(r.stack), lock |-> Trace_flush_lock(r.lock)]

\* the recorder as base_catch leaves it when it returns after the handler:
\* nothing follows the handler call in the catch clause, flush is not called
base_catch_leaves(r) == r

base_catch_handled(t) ==
    /\ InHandler(t)
    /\ ~ub[t]
    /\ Depth(t) = 0
    /\ pc' = [pc EXCEPT ![t] = base_catch_after_handler(calls[t]).pc]
    /\ calls' = [calls EXCEPT ![t] = base_catch_after_handler(calls[t]).calls]
    /\ thrown' = [thrown EXCEPT ![t] = NoException]
    /\ atRaise' = [atRaise EXCEPT ![t] = NoRaise]
    /\ byMacro' = [byMacro EXCEPT ![t] = FALSE]
    /\ trying' = [trying EXCEPT ![t] = NoTry]
    /\ _stack' = [_stack EXCEPT ![Trace_statics(t)] =
                    base_catch_leaves(Recorder(Trace_statics(t))).stack]
    /\ _lock' = [_lock EXCEPT ![Trace_statics(t)] =
                   base_catch_leaves(Recorder(Trace_statics(t))).lock]
    /\ Quiet(t)
    /\ UNCHANGED <<scopes, hargs, outcome, pre, hist, ub, constructed, plain>>

(***************************************************************************)
(* The callables: what base() and handler() do, step by step.              *)
(***************************************************************************)
\* one more step of the running callable: position, and the ghost of "start"
Step(t) ==
    /\ pc' = [pc EXCEPT ![t] = Stepped(@)]
    /\ pre' = [pre EXCEPT ![t] = NoPre]

\* a GWX_BEGIN that declares its Trace object in every build
GWX_BEGIN_declares_always(dtrace) == TRUE

\* #ifdef DTRACE: GWX_BEGIN(F,...) declares ::Gwers::Trace x_trace(...);
\* #else:         GWX_BEGIN(F,...) expands to nothing
GWX_BEGIN_declares(dtrace) == dtrace

\* GWX_BEGIN: a function is entered by base(), by handler(), or by a
\* destructor that runs while an exception unwinds; where the macro declares
\* a Trace object, that object is constructed.
Enter(t, l) ==
    /\ Running(t)
    /\ Depth(t) < MaxDepth
    /\ IF GWX_BEGIN_declares(DTRACE)
       THEN /\ Len(_stack[Trace_statics(t)]) < MaxStack
            /\ _stack' = [_stack EXCEPT ![Trace_statics(t)] = Trace_Trace(@, l)]
            /\ scopes' = [scopes EXCEPT ![t] = Append(@, l)]
            /\ hist' = [hist EXCEPT ![t] = HistPush(@, l)]
            /\ atRaise' = [atRaise EXCEPT ![t] =
                             IF pc[t] = "unwind" THEN [@ EXCEPT !.entered = TRUE] ELSE @]
            /\ UNCHANGED plain
       ELSE /\ plain' = [plain EXCEPT ![t] = @ + 1]
            /\ UNCHANGED <<_stack, scopes, hist, atRaise>>
    /\ Step(t)
    /\ Quiet(t)
    /\ Settle(t)
    /\ UNCHANGED <<_lock, thrown, hargs, calls, outcome, ub, constructed>>

\* The innermost active function is left: it returns, or the exception in
\* flight unwinds it; its Trace object, where it has one, is destroyed.  A
\* function that contains the GWX_TRY being executed is not left before the
\* macro's statement has ended.
Exit(t) ==
    /\ Running(t)
    /\ Depth(t) > 0
    /\ trying[t].state = "in" => Depth(t) > trying[t].depth
    /\ IF scopes[t] # <<>>
       THEN /\ scopes' = [scopes EXCEPT ![t] = Front(@)]
            /\ IF Trace_dtor_undefined(_stack[Trace_statics(t)], _lock[Trace_statics(t)])
               THEN /\ ub' = [ub EXCEPT ![t] = TRUE]
                    /\ UNCHANGED _stack
               ELSE /\ _stack' = [_stack EXCEPT ![Trace_statics(t)] = Trace_dtor(@, _lock[Trace_statics(t)])]
                    /\ UNCHANGED ub
            /\ hist' = [hist EXCEPT ![t] = HistRelease(@)]
            /\ UNCHANGED plain
       ELSE /\ plain' = [plain EXCEPT ![t] = @ - 1]
            /\ UNCHANGED <<_stack, scopes, hist, ub>>
    /\ Step(t)
    /\ Quiet(t)
    /\ Settle(t)
    /\ UNCHANGED <<_lock, thrown, hargs, calls, outcome, atRaise, constructed>>

\* a constructor that leaves the recorder alone
Exception_ctor_no_lock(lk) == lk

\* the side effect of Exception::Exception on the recorder: Trace::lock()
Exception_ctor_lock(lk) == Trace_lock(lk)

\* base() constructs an exception object and does not throw it
Construct(t, o) ==
    /\ InBase(t)
    /\ ~ub[t]
    /\ o \in GwersObjects
    /\ _lock' = [_lock EXCEPT ![Trace_statics(t)] = Exception_ctor_lock(@)]
    /\ hist' = [hist EXCEPT ![t] = HistBroken]
    /\ constructed' = [constructed EXCEPT ![t] = TRUE]
    /\ Step(t)
    /\ Quiet(t)
    /\ UNCHANGED <<_stack, scopes, thrown, hargs, calls, outcome, atRaise, ub,
                   byMacro, trying, plain>>

\* throw o: the object is constructed (a Gwers::Exception locks the recorder),
\* then the stack unwinds towards base_catch
Raise(t, o) ==
    /\ atRaise' = [atRaise EXCEPT ![t] =
                     [stack |-> _stack[Trace_statics(t)], active |-> scopes[t],
                      frozen |-> _lock[Trace_statics(t)], entered |-> FALSE, set |-> TRUE]]
    /\ _lock' = [_lock EXCEPT ![Trace_statics(t)] = IF o.gwers THEN Exception_ctor_lock(@) ELSE @]
    /\ hist' = [hist EXCEPT ![t] = IF o.gwers THEN HistBroken ELSE @]
    /\ thrown' = [thrown EXCEPT ![t] = o]
    /\ pc' = [pc EXCEPT ![t] = "unwind"]
    /\ pre' = [pre EXCEPT ![t] = NoPre]
    /\ constructed' = [constructed EXCEPT ![t] = @ \/ o.gwers]
    /\ UNCHANGED <<_stack, scopes, hargs, calls, outcome, ub>>

\* base() throws: throw gwe("test_who","test_what",66), t.at(...), throw int(66)
Throw(t, o) ==
    /\ InBase(t)
    /\ ~ub[t]
    /\ Raise(t, o)
    /\ Quiet(t)
    /\ UNCHANGED <<byMacro, trying, plain>>

\* an assert that throws when the condition holds
Exception_assert_throws_inverted(cond) == cond

\* template<class X> void Exception::assert(bool cond, int line):
\*    if (!cond) throw X(line);
Exception_assert_throws(cond) == ~cond

\* the body of assert<X>(cond, line), run by thread t
assert_body(t, X, cond, line) ==
    IF Exception_assert_throws(cond)
    THEN Raise(t, Make(X, line))
    ELSE /\ Step(t)
         /\ UNCHANGED <<_stack, _lock, scopes, thrown, hargs, calls, outcome,
                        atRaise, hist, ub, constructed>>

\* base() calls Exception::assert<X>(cond, line) itself, as unit::exception::assert does
Exception_assert(t, X, cond, line) ==
    /\ InBase(t)
    /\ ~ub[t]
    /\ assert_body(t, X, cond, line)
    /\ guard' = [guard EXCEPT ![t] =
                   [NoGuard EXCEPT !.op = "assert", !.X = X, !.line = line,
                                   !.cond = cond, !.evals = 1,
                                   !.stack = _stack[Trace_statics(t)], !.lock = _lock[Trace_statics(t)]]]
    /\ UNCHANGED <<last, DEBUG, DTRACE, byMacro, trying, plain, apart>>

(***************************************************************************)
(* The handler throws.  Its exception unwinds the handler ("hunwind") and  *)
(* leaves the catch clause that called it.                                 *)
(***************************************************************************)
\* what the handler throws: unit::exception::handler_func throws fail()
HandlerObjects == {Fake(33), OutOfRange, Int66}

\* the handler, called by one of the catch clauses, throws o
handler_throws(t, o) ==
    /\ InHandler(t)
    /\ ~ub[t]
    /\ _lock' = [_lock EXCEPT ![Trace_statics(t)] =
                   IF o.gwers THEN Exception_ctor_lock(@) ELSE @]
    /\ constructed' = [constructed EXCEPT ![t] = @ \/ o.gwers]
    /\ hist' = [hist EXCEPT ![t] = IF o.gwers THEN HistBroken ELSE @]
    /\ thrown' = [thrown EXCEPT ![t] = o]
    /\ pc' = [pc EXCEPT ![t] = "hunwind"]
    /\ Quiet(t)
    /\ Settle(t)
    /\ UNCHANGED <<_stack, scopes, hargs, calls, outcome, pre, atRaise, ub, plain>>

\* the clauses after the one that called the handler catching what it threw
base_catch_rethrown_calls_caught(o) == <<base_catch_args(o)>>

\* the handler calls base_catch makes for an exception o thrown by the
\* handler: none; the catch clauses belong to the try block around base()
\* alone, and an exception thrown inside one of them leaves base_catch
base_catch_rethrown_calls(o) == <<>>

\* the handler's exception has unwound the handler
base_catch_escape(t) ==
    LET hc == base_catch_rethrown_calls(thrown[t]) IN
    /\ pc[t] = "hunwind"
    /\ ~ub[t]
    /\ Depth(t) = 0
    /\ calls' = [calls EXCEPT ![t].handler = @ + Len(hc)]
    /\ IF hc = <<>>
       THEN /\ pc' = [pc EXCEPT ![t] = "idle"]
            /\ UNCHANGED hargs
       ELSE /\ pc' = [pc EXCEPT ![t] = "hstart"]
            /\ hargs' = [hargs EXCEPT ![t] = hc[1]]
    /\ atRaise' = [atRaise EXCEPT ![t] = NoRaise]
    /\ Quiet(t)
    /\ UNCHANGED <<_stack, _lock, scopes, thrown, outcome, pre, hist, ub, constructed,
                   byMacro, trying, plain>>

HandlerNext(t) ==
    \/ \E o \in HandlerObjects : handler_throws(t, o)
    \/ base_catch_escape(t)

(***************************************************************************)
(* The guard macros of exception.h, used by base().  Each macro has two    *)
(* expansions, chosen by DEBUG; an expansion is described by how many      *)
(* times the macro's condition (GWX_ASSERT, GWX_CHECK) or function         *)
(* (GWX_PASS) is evaluated, and by whether assert<X> is called on the      *)
(* value.                                                                  *)
(***************************************************************************)
\* a GWX_ASSERT whose condition is evaluated in both builds
GWX_ASSERT_expansion_evaluates(debug) == [evals |-> 1, asserts |-> debug]

\* #define GWX_ASSERT(T,X,L) ::Gwers::Exception::assert<X>(T,L);   (DEBUG)
\* #define GWX_ASSERT(T,X,L)                                       (otherwise)
GWX_ASSERT_expansion(debug) ==
    IF debug THEN [evals |-> 1, asserts |-> TRUE]
             ELSE [evals |-> 0, asserts |-> FALSE]

\* a GWX_CHECK that expands to nothing without DEBUG
GWX_CHECK_expansion_dropped(debug) ==
    IF debug THEN [evals |-> 1, asserts |-> TRUE]
             ELSE [evals |-> 0, asserts |-> FALSE]

\* #define GWX_CHECK(T,X,L) ::Gwers::Exception::assert<X>(T,L);    (DEBUG)
\* #define GWX_CHECK(T,X,L) T;                                     (otherwise)
GWX_CHECK_expansion(debug) ==
    IF debug THEN [evals |-> 1, asserts |-> TRUE]
             ELSE [evals |-> 1, asserts |-> FALSE]

\* #define GWX_PASS(V,C,F,X,L) ::Gwers::Exception::assert<X>(V C F,L);  (DEBUG)
\* #define GWX_PASS(V,C,F,X,L) F;                                       (otherwise)
GWX_PASS_expansion(debug) ==
    IF debug THEN [evals |-> 1, asserts |-> TRUE]
             ELSE [evals |-> 1, asserts |-> FALSE]

\* the values V and the return values of F, and the operators C
Values == {1, 2}
Comparators == {"==", "<", ">="}

\* the comparison with the function's value on the left
Compare_swapped(v, c, r) ==
    CASE c = "==" -> r = v
      [] c = "<"  -> r < v
      [] c = ">=" -> r >= v

\* the expression V C F, r being the value F returned
Compare(v, c, r) ==
    CASE c = "==" -> v = r
      [] c = "<"  -> v < r
      [] c = ">=" -> v >= r

\* base() executes the expansion x of macro op; cond is the value of the
\* condition handed to assert<X> when the expansion calls it
Macro(t, op, x, X, cond, line, v, c, r) ==
    /\ InBase(t)
    /\ ~ub[t]
    /\ IF x.asserts
       THEN assert_body(t, X, cond, line)
       ELSE /\ Step(t)
            /\ UNCHANGED <<_stack, _lock, scopes, thrown, hargs, calls, outcome,
                           atRaise, hist, ub, constructed>>
    /\ guard' = [guard EXCEPT ![t] =
                   [op |-> op, X |-> X, line |-> line, cond |-> cond,
                    evals |-> x.evals, v |-> v, c |-> c, r |-> r,
                    stack |-> _stack[Trace_statics(t)], lock |-> _lock[Trace_statics(t)]]]
    /\ byMacro' = [byMacro EXCEPT ![t] = x.asserts /\ Exception_assert_throws(cond)]
    /\ UNCHANGED <<last, DEBUG, DTRACE, trying, plain, apart>>

\* GWX_ASSERT(T,X,L), T being the value the condition has
GWX_ASSERT(t, T, X, L) ==
    Macro(t, "GWX_ASSERT", GWX_ASSERT_expansion(DEBUG), X, T, L, 0, "", 0)

\* GWX_CHECK(T,X,L)
GWX_CHECK(t, T, X, L) ==
    Macro(t, "GWX_CHECK", GWX_CHECK_expansion(DEBUG), X, T, L, 0, "", 0)

\* GWX_PASS(V,C,F,X,L), F being the value the function returns
GWX_PASS(t, V, C, F, X, L) ==
    Macro(t, "GWX_PASS", GWX_PASS_expansion(DEBUG), X, Compare(V, C, F), L, V, C, F)

(***************************************************************************)
(* GWX_TRY(S,X,L).  base() executes the statement S as further steps (it   *)
(* may enter and leave functions, use the other macros, throw); one        *)
(* GWX_TRY is executed at a time.  With DEBUG the statement is inside a    *)
(* try block whose catch (...) clause throws X(L); without DEBUG the macro *)
(* is the statement alone, and `trying` only observes it.                  *)
(***************************************************************************)
\* a GWX_TRY that has its try block in every build
GWX_TRY_catches_always(debug) == TRUE

\* #define GWX_TRY(S,X,L) try { S; } catch(...) { throw X(L); }    (DEBUG)
\* #define GWX_TRY(S,X,L) S;                                       (otherwise)
GWX_TRY_catches(debug) == debug

\* a clause that is catch (std::exception&)
GWX_TRY_catch_matches_std(o) == o.std

\* catch (...) matches whatever was thrown
GWX_TRY_catch_matches(o) == TRUE

\* base() reaches a GWX_TRY(S,X,L) and starts on S
GWX_TRY_begin(t, X, L) ==
    /\ InBase(t)
    /\ ~ub[t]
    /\ trying[t].state = "none"
    /\ trying' = [trying EXCEPT ![t] =
                    [NoTry EXCEPT !.state = "in", !.depth = Depth(t), !.X = X, !.L = L]]
    /\ Step(t)
    /\ Quiet(t)
    /\ UNCHANGED <<_stack, _lock, scopes, thrown, hargs, calls, outcome, atRaise,
                   hist, ub, constructed, byMacro, plain>>

\* S has ended without throwing: base() goes on after the macro
GWX_TRY_end(t) ==
    /\ InBase(t)
    /\ ~ub[t]
    /\ trying[t].state = "in"
    /\ Depth(t) = trying[t].depth
    /\ trying' = [trying EXCEPT ![t] = NoTry]
    /\ Step(t)
    /\ Quiet(t)
    /\ UNCHANGED <<_stack, _lock, scopes, thrown, hargs, calls, outcome, atRaise,
                   hist, ub, constructed, byMacro, plain>>

\* the exception S threw has unwound S and reaches the macro's site: the
\* catch clause, where there is one and it matches, throws X(L) in its place;
\* otherwise the exception goes on unwinding
GWX_TRY_catch(t) ==
    /\ pc[t] = "unwind"
    /\ ~ub[t]
    /\ trying[t].state = "in"
    /\ Depth(t) = trying[t].depth
    /\ IF GWX_TRY_catches(DEBUG) /\ GWX_TRY_catch_matches(thrown[t])
       THEN /\ Raise(t, Make(trying[t].X, trying[t].L))
            /\ byMacro' = [byMacro EXCEPT ![t] = TRUE]
            /\ trying' = [trying EXCEPT ![t] =
                            [@ EXCEPT !.state = "converted", !.raised = thrown[t],
                                      !.deeper = atRaise[t].active]]
       ELSE /\ trying' = [trying EXCEPT ![t] =
                            [@ EXCEPT !.state = "passed", !.raised = thrown[t],
                                      !.deeper = atRaise[t].active]]
            /\ UNCHANGED <<_stack, _lock, pc, scopes, thrown, hargs, calls, outcome,
                           pre, atRaise, hist, ub, constructed, byMacro>>
    /\ Quiet(t)
    /\ UNCHANGED plain

\* the X and L of the guard macros that base() contains
MacroSites == {<<"Fake", 33>>, <<"Both", 66>>}

\* base_catch around callables that enter and leave functions and throw
CoreNext(t) ==
    \/ base_catch_enter(t)
    \/ base_catch_return(t)
    \/ base_catch_catch(t)
    \/ base_catch_handled(t)
    \/ \E l \in Labels : Enter(t, l)
    \/ Exit(t)
    \/ \E o \in GwersObjects \cup ForeignObjects : Throw(t, o)

\* the three guard macros without a statement
GuardNext(t) ==
    \/ \E T \in BOOLEAN, m \in MacroSites : GWX_ASSERT(t, T, m[1], m[2])
    \/ \E T \in BOOLEAN, m \in MacroSites : GWX_CHECK(t, T, m[1], m[2])
    \/ \E V \in Values, C \in Comparators, F \in Values, m \in MacroSites :
          GWX_PASS(t, V, C, F, m[1], m[2])

TryingNext(t) ==
    \/ \E m \in MacroSites : GWX_TRY_begin(t, m[1], m[2])
    \/ GWX_TRY_end(t)
    \/ GWX_TRY_catch(t)

\* ... whose base() also constructs exceptions without throwing them, calls
\* assert<X> and uses GWX_ASSERT, GWX_CHECK and GWX_PASS
ThreadNext(t) ==
    \/ CoreNext(t)
    \/ \E o \in GwersObjects : Construct(t, o)
    \/ \E X \in Variants, cond \in BOOLEAN, line \in Lines : Exception_assert(t, X, cond, line)
    \/ GuardNext(t)

Next == ThreadNext(Main)

Spec == Init /\ [][Next]_vars

\* ... whose base() uses the four guard macros and throws
NextMacros == CoreNext(Main) \/ GuardNext(Main) \/ TryingNext(Main)

SpecMacros == Init /\ [][NextMacros]_vars

\* ... whose base() uses GWX_TRY, throws, and constructs exceptions without
\* throwing them
NextTry ==
    \/ CoreNext(Main)
    \/ TryingNext(Main)
    \/ \E o \in GwersObjects : Construct(Main, o)

SpecTry == Init /\ [][NextTry]_vars

\* ... whose handler enters and leaves functions and throws
NextHandler == CoreNext(Main) \/ HandlerNext(Main)

SpecHandler == Init /\ [][NextHandler]_vars

(***************************************************************************)
(* Several threads, each calling base_catch around a base() that enters    *)
(* and leaves functions and constructs exceptions; their steps interleave  *)
(* in any order.                                                           *)
(***************************************************************************)
ThreadsNext(t) ==
    \/ base_catch_enter(t)
    \/ base_catch_return(t)
    \/ \E l \in Labels : Enter(t, l)
    \/ Exit(t)
    \/ Construct(t, Fake(33))

NextThreads == \E t \in Threads : ThreadsNext(t)

SpecThreads == Init /\ [][NextThreads]_vars

(***************************************************************************)
(* The Trace class used directly on a thread that is outside base_catch,   *)
(* as the unit tests of trace.cpp do: Trace objects are made and           *)
(* destroyed (innermost first), and the static functions lock and flush    *)
(* are called, in any order.  A flush while Trace objects are alive leaves *)
(* their destructors with nothing to pop.                                  *)
(***************************************************************************)
MaxReps == 2

\* what `last` holds after operation op is called on thread t
Called(t, op, after) ==
    LET again == last[t].op = op
    IN  [op |-> op, stack |-> _stack[Trace_statics(t)], lock |-> _lock[Trace_statics(t)],
         reps |-> IF again /\ last[t].reps < MaxReps THEN last[t].reps + 1
                  ELSE IF again THEN MaxReps ELSE 1,
         first |-> IF again THEN last[t].first ELSE after]

Direct(t) == pc[t] = "idle" /\ ~ub[t]

\* Trace x(l);
DirectTrace(t, l) ==
    /\ Direct(t)
    /\ Len(scopes[t]) < MaxDepth
    /\ Len(_stack[Trace_statics(t)]) < MaxStack
    /\ _stack' = [_stack EXCEPT ![Trace_statics(t)] = Trace_Trace(@, l)]
    /\ scopes' = [scopes EXCEPT ![t] = Append(@, l)]
    /\ last' = [last EXCEPT ![t] =
                  Called(t, "Trace", [stack |-> Trace_Trace(_stack[Trace_statics(t)], l), lock |-> _lock[Trace_statics(t)]])]
    /\ UNCHANGED <<_lock, pc, thrown, hargs, calls, outcome, pre, atRaise, hist,
                   ub, constructed, guard, DEBUG,
                   byMacro, trying, plain, DTRACE, apart>>

\* the innermost live Trace object goes out of scope
DirectRelease(t) ==
    /\ Direct(t)
    /\ scopes[t] # <<>>
    /\ scopes' = [scopes EXCEPT ![t] = Front(@)]
    /\ IF Trace_dtor_undefined(_stack[Trace_statics(t)], _lock[Trace_statics(t)])
       THEN /\ ub' = [ub EXCEPT ![t] = TRUE]
            /\ UNCHANGED _stack
       ELSE /\ _stack' = [_stack EXCEPT ![Trace_statics(t)] = Trace_dtor(@, _lock[Trace_statics(t)])]
            /\ UNCHANGED ub
    /\ last' = [last EXCEPT ![t] =
                  Called(t, "~Trace", [stack |-> Trace_dtor(_stack[Trace_statics(t)], _lock[Trace_statics(t)]), lock |-> _lock[Trace_statics(t)]])]
    /\ UNCHANGED <<_lock, pc, thrown, hargs, calls, outcome, pre, atRaise, hist,
                   constructed, guard, DEBUG,
                   byMacro, trying, plain, DTRACE, apart>>

\* Trace::lock();
DirectLock(t) ==
    /\ Direct(t)
    /\ _lock' = [_lock EXCEPT ![Trace_statics(t)] = Trace_lock(@)]
    /\ last' = [last EXCEPT ![t] =
                  Called(t, "lock", [stack |-> _stack[Trace_statics(t)], lock |-> Trace_lock(_lock[Trace_statics(t)])])]
    /\ UNCHANGED <<_stack, pc, scopes, thrown, hargs, calls, outcome, pre, atRaise,
                   hist, ub, constructed, guard, DEBUG,
                   byMacro, trying, plain, DTRACE, apart>>

\* Trace::flush();
DirectFlush(t) ==
    /\ Direct(t)
    /\ _stack' = [_stack EXCEPT ![Trace_statics(t)] = Trace_flush_stack(@)]
    /\ _lock' = [_lock EXCEPT ![Trace_statics(t)] = Trace_flush_lock(@)]
    /\ last' = [last EXCEPT ![t] =
                  Called(t, "flush", [stack |-> Trace_flush_stack(_stack[Trace_statics(t)]),
                                      lock |-> Trace_flush_lock(_lock[Trace_statics(t)])])]
    /\ UNCHANGED <<pc, scopes, thrown, hargs, calls, outcome, pre, atRaise, hist,
                   ub, constructed, guard, DEBUG,
                   byMacro, trying, plain, DTRACE, apart>>

DirectNext(t) ==
    \/ \E l \in Labels : DirectTrace(t, l)
    \/ DirectRelease(t)
    \/ DirectLock(t)
    \/ DirectFlush(t)

NextDirect == DirectNext(Main)

SpecDirect == Init /\ [][NextDirect]_vars

(***************************************************************************)
(* Properties.                                                             *)
(***************************************************************************)
AtHandlerStart(t) == pc[t] = "hstart"

\* C1, as stated: whenever the handler starts on a Gwers::Exception, the
\* snapshot is exactly the function strings of the Trace objects that were
\* alive when the exception was thrown.
C1_SnapshotIsLiveScopesAtRaise ==
    \A t \in Threads :
        (AtHandlerStart(t) /\ hargs[t].type = "gwers")
            => snapshot(t) = atRaise[t].active

\* C1, amended: when the handler starts on a Gwers::Exception and no Trace
\* object was constructed while the exception unwound, the recorder is locked
\* and the snapshot is the stack as it was when the exception was constructed;
\* if the recorder was not locked before that construction, this is exactly
\* the function strings of the Trace objects alive at the throw, in push order.
C1_FrozenSnapshot ==
    \A t \in Threads :
        (AtHandlerStart(t) /\ hargs[t].type = "gwers" /\ ~atRaise[t].entered)
            => /\ _lock[t]
               /\ snapshot(t) = atRaise[t].stack
               /\ ~atRaise[t].frozen => snapshot(t) = atRaise[t].active

\* C1 witness: the handler starts on a Gwers::Exception thrown under two live
\* Trace objects with the recorder unlocked; both have been unwound.
C1_Witness ==
    /\ AtHandlerStart(Main)
    /\ hargs[Main].type = "gwers"
    /\ ~atRaise[Main].frozen
    /\ ~atRaise[Main].entered
    /\ atRaise[Main].active = <<"first", "second">>
    /\ scopes[Main] = <<>>
    /\ snapshot(Main) = <<"first", "second">>

\* C2: after a flush, N pushes L1..LN and then the last k of them released in
\* reverse order, with no lock, leave the snapshot [L1..L(N-k)]: all N after the
\* pushes (k = 0), empty after all releases (k = N).
C2_PushesThenReleases ==
    \A t \in Threads :
        hist[t].ok
            => snapshot(t) = SubSeq(hist[t].labels, 1, Len(hist[t].labels) - hist[t].k)

\* C2 witness: two pushes, then the last one released
C2_Witness ==
    /\ hist[Main].ok
    /\ hist[Main].labels = <<"first", "second">>
    /\ hist[Main].k = 1
    /\ snapshot(Main) = <<"first">>

\* C3: the handler is told gwers exactly for objects with a Gwers::Exception
\* base, std exactly for the other objects with a std::exception base, unknown
\* exactly for the rest.
C3_Classification ==
    \A t \in Threads :
        InHandler(t)
            => /\ hargs[t].type \in {"gwers", "std", "unknown"}
               /\ hargs[t].type = "gwers" <=> thrown[t].gwers
               /\ hargs[t].type = "std" <=> (~thrown[t].gwers /\ thrown[t].std)
               /\ hargs[t].type = "unknown" <=> (~thrown[t].gwers /\ ~thrown[t].std)

\* C3 witness: a variant that is also a std::exception is delivered as gwers
C3_Witness ==
    /\ AtHandlerStart(Main)
    /\ thrown[Main].dyn = "Both"
    /\ thrown[Main].std
    /\ hargs[Main].type = "gwers"

\* C4: at the first step of base() the snapshot is empty and the recorder is
\* unlocked, whatever base_catch found.
C4_ResetBeforeEntry ==
    \A t \in Threads :
        pc[t] = "start" => (snapshot(t) = <<>> /\ ~_lock[t])

\* C4 witness: base() starts on a thread whose recorder base_catch found
\* locked with two function strings, left by a Gwers::Exception
C4_Witness ==
    /\ pc[Main] = "start"
    /\ pre[Main].set
    /\ pre[Main].lock
    /\ Len(pre[Main].stack) = 2
    /\ snapshot(Main) = <<>>

\* C5: in one base_catch call base() is called exactly once and never again;
\* the handler is called at most once, and exactly once, before base_catch
\* returns, when base() threw.
C5_CalledOnce ==
    \A t \in Threads :
        /\ outcome[t] # "none" => calls[t].base = 1
        /\ calls[t].handler <= 1
        /\ InHandler(t) => calls[t].handler = 1
        /\ (pc[t] = "idle" /\ outcome[t] = "threw") => calls[t].handler = 1

\* C5 witness: base_catch has returned after handling an unknown exception
C5_Witness ==
    /\ pc[Main] = "idle"
    /\ outcome[Main] = "threw"
    /\ hargs[Main].type = "unknown"
    /\ calls[Main] = [base |-> 1, handler |-> 1]

\* C6: when base() has returned, base_catch has returned without a handler call.
C6_NoHandlerOnReturn ==
    \A t \in Threads :
        outcome[t] = "returned"
            => (pc[t] = "idle" /\ calls[t].handler = 0 /\ hargs[t] = NoArgs)

\* C6 witness: base() has returned and base_catch with it
C6_Witness ==
    /\ outcome[Main] = "returned"
    /\ pc[Main] = "idle"
    /\ calls[Main].base = 1

\* C7: on the gwers path the handler's Exception has the who, what and line of
\* the object that was thrown.
C7_KnownFields ==
    \A t \in Threads :
        (InHandler(t) /\ hargs[t].type = "gwers")
            => /\ Len(hargs[t].e) = 1
               /\ hargs[t].e[1].who = thrown[t].who
               /\ hargs[t].e[1].what = thrown[t].what
               /\ hargs[t].e[1].line = thrown[t].line

\* C7 witness: the handler sees a derived variant thrown with line 66
C7_Witness ==
    /\ InHandler(Main)
    /\ thrown[Main] = Fake(66)
    /\ hargs[Main].e = <<Exception_Exception("unit::exception", "fake", 66)>>

\* C8: the handler gets an Exception pointer only with gwers, a std::exception
\* pointer only with std, and exactly that one pointer; with unknown it gets none.
C8_OnePayload ==
    \A t \in Threads :
        InHandler(t)
            => /\ hargs[t].type = "gwers" => (Len(hargs[t].e) = 1 /\ hargs[t].std = <<>>)
               /\ hargs[t].type = "std" => (hargs[t].e = <<>> /\ Len(hargs[t].std) = 1)
               /\ hargs[t].type = "unknown" => (hargs[t].e = <<>> /\ hargs[t].std = <<>>)

\* C8 witness: the handler runs on a std::out_of_range
C8_Witness ==
    /\ InHandler(Main)
    /\ thrown[Main] = OutOfRange
    /\ hargs[Main].type = "std"
    /\ hargs[Main].e = <<>>
    /\ Len(hargs[Main].std) = 1

\* C9: while the recorder is unlocked, the stack is as deep as the number of
\* Trace objects constructed since the last flush and not yet destroyed.
C9_DepthTracksScopes ==
    \A t \in Threads :
        (~_lock[t] /\ ~ub[t]) => Len(_stack[t]) = Len(scopes[t])

\* C9 witness: unlocked, two Trace objects alive inside the handler
C9_Witness ==
    /\ ~_lock[Main]
    /\ pc[Main] = "handler"
    /\ Len(scopes[Main]) = 2
    /\ Len(_stack[Main]) = 2

\* C10, as stated: the snapshot always is the function strings of the live
\* Trace objects, in push order.
C10_SnapshotAlwaysLiveScopes ==
    \A t \in Threads : snapshot(t) = scopes[t]

\* C10, amended: while the recorder is unlocked, the snapshot is the function
\* strings of the live Trace objects in push order, so that destroying the
\* innermost Trace object removes its own string and no other.
C10_SnapshotLiveScopesUnlocked ==
    \A t \in Threads :
        (~_lock[t] /\ ~ub[t]) => snapshot(t) = scopes[t]

\* C10 witness: "second" was released over "first", which is what is left
C10_Witness ==
    /\ ~_lock[Main]
    /\ pc[Main] = "base"
    /\ hist[Main].ok
    /\ hist[Main].labels = <<"first", "second">>
    /\ hist[Main].k = 1
    /\ scopes[Main] = <<"first">>
    /\ snapshot(Main) = <<"first">>

\* C11: after Trace::flush the snapshot is empty and _lock is false, whatever
\* the recorder held before (locked with function strings, unlocked with
\* function strings, or empty); after a second flush in a row the recorder
\* is what the first one left.
C11_FlushEmptiesAndUnlocks ==
    \A t \in Threads :
        last[t].op = "flush"
            => /\ snapshot(t) = <<>>
               /\ _lock[t] = FALSE
               /\ last[t].reps >= 2 => Recorder(t) = last[t].first

\* a flush has just emptied an unlocked recorder that held two function strings
C11_Witness ==
    /\ last[Main].op = "flush"
    /\ last[Main].reps = 1
    /\ ~last[Main].lock
    /\ Len(last[Main].stack) = 2
    /\ snapshot(Main) = <<>>

\* C17: after Trace::lock _lock is true and the vector is as before; after a
\* second lock in a row the recorder is what the first one left.
C17_LockIdempotent ==
    \A t \in Threads :
        last[t].op = "lock"
            => /\ _lock[t] = TRUE
               /\ _stack[t] = last[t].stack
               /\ last[t].reps >= 2 => Recorder(t) = last[t].first

\* lock has been called twice in a row on a recorder holding a function string
C17_Witness ==
    /\ last[Main].op = "lock"
    /\ last[Main].reps = 2
    /\ _stack[Main] = <<"first">>
    /\ _lock[Main]

\* a step in which thread t's innermost live Trace object is destroyed
Released(t) == Len(scopes'[t]) < Len(scopes[t])

\* C12: the destructor of a Trace object that runs while _lock is true
\* changes neither the vector nor _lock; a destructor removes a function
\* string (the newest) only when _lock is false.
C12_ReleaseWhileLocked ==
    [][\A t \in Threads :
         Released(t)
            => /\ _lock'[t] = _lock[t]
               /\ _lock[t] => _stack'[t] = _stack[t]
               /\ _stack'[t] # _stack[t]
                     => ~_lock[t] /\ _stack'[t] = Front(_stack[t])]_vars

\* both Trace objects that were alive when the exception was constructed
\* have been destroyed by the unwinding, with _lock true: the vector still
\* holds both function strings
C12_Witness ==
    /\ pc[Main] = "unwind"
    /\ _lock[Main]
    /\ scopes[Main] = <<>>
    /\ atRaise[Main].active = <<"first", "second">>
    /\ _stack[Main] = <<"first", "second">>

\* a step in which thread t runs Exception::Exception: the object is only
\* constructed, or thrown, or thrown by assert<X> (each of these steps is
\* taken in base() and leaves `constructed` true)
Constructing(t) ==
    /\ InBase(t)
    /\ constructed'[t]
    /\ guard'[t].op \in {"none", "assert"}
    /\ \/ \E o \in GwersObjects : Construct(t, o) \/ Throw(t, o)
       \/ \E X \in Variants, line \in Lines : Exception_assert(t, X, FALSE, line)

\* C13: constructing a Gwers::Exception (or a type derived from it) leaves
\* _lock true, whether the object is thrown or not, and leaves the vector
\* as it was.
C13_ConstructionLocksOnly ==
    [][\A t \in Threads :
         Constructing(t) => _lock'[t] = TRUE /\ _stack'[t] = _stack[t]]_vars

\* an exception has been constructed and not thrown, inside one traced
\* function: _lock is true and the vector holds that function's string
C13_Witness ==
    /\ pc[Main] = "base"
    /\ constructed[Main]
    /\ thrown[Main] = NoException
    /\ _lock[Main]
    /\ scopes[Main] = <<"first">>
    /\ _stack[Main] = <<"first">>

\* C14: Exception::assert<X>(cond, line) throws an X whose line() is the
\* line it was given exactly when cond is false; when cond is true nothing
\* is thrown, the call returns into base(), and the vector and _lock are
\* as before the call.
C14_AssertThrowsIffFalse ==
    \A t \in Threads :
        guard[t].op = "assert"
            => IF guard[t].cond
               THEN /\ InBase(t)
                    /\ thrown[t] = NoException
                    /\ _stack[t] = guard[t].stack
                    /\ _lock[t] = guard[t].lock
               ELSE /\ pc[t] = "unwind"
                    /\ thrown[t].dyn = guard[t].X
                    /\ thrown[t].gwers
                    /\ thrown[t].line = guard[t].line

\* assert<Fake>(false, 66) has just thrown a Fake with line 66
C14_Witness ==
    /\ guard[Main].op = "assert"
    /\ ~guard[Main].cond
    /\ guard[Main].X = "Fake"
    /\ guard[Main].line = 66
    /\ pc[Main] = "unwind"
    /\ thrown[Main] = Fake(66)

\* C15: when base() ends with an exception that is not a Gwers::Exception
\* (a std::exception or anything else) and no Gwers::Exception was
\* constructed since base_catch was entered, then as the handler starts the
\* snapshot is empty and _lock is false.
C15_ForeignFindsEmptyTrace ==
    \A t \in Threads :
        (/\ AtHandlerStart(t)
         /\ hargs[t].type \in {"std", "unknown"}
         /\ ~constructed[t])
            => snapshot(t) = <<>> /\ _lock[t] = FALSE

\* the handler starts on a std::exception that was thrown inside two traced
\* functions; their Trace objects have popped both function strings
C15_Witness ==
    /\ AtHandlerStart(Main)
    /\ hargs[Main].type = "std"
    /\ ~constructed[Main]
    /\ atRaise[Main].active = <<"first", "second">>
    /\ snapshot(Main) = <<>>
    /\ ~_lock[Main]

\* a step in which thread t constructs a Trace object
Pushed(t) == Len(scopes'[t]) > Len(scopes[t])

\* C16: the constructor of a Trace object does not look at _lock: run
\* while _lock is true it appends its function string at the back of the
\* vector, as it does while _lock is false, and _lock stays true.
C16_PushIgnoresLock ==
    [][\A t \in Threads :
         Pushed(t)
            => /\ \E l \in Labels : /\ scopes'[t] = Append(scopes[t], l)
                                    /\ _stack'[t] = Append(_stack[t], l)
               /\ _lock'[t] = _lock[t]]_vars

\* the handler has entered a traced function while _lock was true: its
\* function string follows the one the exception left in the vector
C16_Witness ==
    /\ pc[Main] = "handler"
    /\ _lock[Main]
    /\ atRaise[Main].stack = <<"first">>
    /\ scopes[Main] = <<"second">>
    /\ _stack[Main] = <<"first", "second">>

\* the macro thread t has just executed threw its variant with its line
MacroRaised(t) ==
    /\ pc[t] = "unwind"
    /\ thrown[t] = Make(guard[t].X, guard[t].line)

\* the macro thread t has just executed threw nothing: base() goes on
MacroPassed(t) ==
    /\ InBase(t)
    /\ thrown[t] = NoException

\* C18: GWX_ASSERT built without DEBUG does not evaluate its condition and
\* throws nothing; built with DEBUG it evaluates the condition once and
\* throws its variant exactly when the condition is false.
C18_OptionalGuard ==
    \A t \in Threads :
        guard[t].op = "GWX_ASSERT"
            => IF DEBUG
               THEN /\ guard[t].evals = 1
                    /\ IF guard[t].cond THEN MacroPassed(t) ELSE MacroRaised(t)
               ELSE /\ guard[t].evals = 0
                    /\ MacroPassed(t)

\* without DEBUG, a GWX_ASSERT whose condition would be false has been
\* passed: nothing was evaluated and nothing thrown
C18_Witness ==
    /\ ~DEBUG
    /\ guard[Main].op = "GWX_ASSERT"
    /\ ~guard[Main].cond
    /\ guard[Main].evals = 0
    /\ MacroPassed(Main)

\* C19: GWX_CHECK built without DEBUG executes its condition once and throws
\* nothing, whatever the condition's value; built with DEBUG it does what
\* GWX_ASSERT does: the condition is evaluated once and the variant is
\* thrown exactly when it is false.
C19_MandatoryGuard ==
    \A t \in Threads :
        guard[t].op = "GWX_CHECK"
            => /\ guard[t].evals = 1
               /\ IF DEBUG /\ ~guard[t].cond THEN MacroRaised(t) ELSE MacroPassed(t)

\* without DEBUG, a GWX_CHECK whose condition was false has executed the
\* condition once and thrown nothing
C19_Witness ==
    /\ ~DEBUG
    /\ guard[Main].op = "GWX_CHECK"
    /\ ~guard[Main].cond
    /\ guard[Main].evals = 1
    /\ MacroPassed(Main)

\* C20: GWX_PASS(V,C,F,X,L) executes F once in both builds; X with line L is
\* thrown exactly when the build has DEBUG and "V C r" is false, r being the
\* value F returned, with V on the left of the operator.
C20_ValueCompareGuard ==
    \A t \in Threads :
        guard[t].op = "GWX_PASS"
            => LET v == guard[t].v
                   r == guard[t].r
                   holds == \/ guard[t].c = "==" /\ v = r
                            \/ guard[t].c = "<" /\ v < r
                            \/ guard[t].c = ">=" /\ v >= r
               IN  /\ guard[t].evals = 1
                   /\ IF DEBUG /\ ~holds THEN MacroRaised(t) ELSE MacroPassed(t)

\* with DEBUG, GWX_PASS(2, <, F, Fake, 33) with F returning 1 has thrown
\* Fake(33): 2 < 1 is false (1 < 2 would hold)
C20_Witness ==
    /\ DEBUG
    /\ guard[Main].op = "GWX_PASS"
    /\ guard[Main].v = 2
    /\ guard[Main].c = "<"
    /\ guard[Main].r = 1
    /\ guard[Main].evals = 1
    /\ pc[Main] = "unwind"
    /\ thrown[Main] = Fake(33)

\* C21: in a build without DEBUG no guard macro (GWX_ASSERT, GWX_CHECK,
\* GWX_PASS, GWX_TRY) throws, so the handler never gets Type::gwers for an
\* exception that came out of a macro; an exception that is no
\* Gwers::Exception is still handed over as Type::std (with the
\* std::exception pointer alone) or as Type::unknown (with no pointer), also
\* when it went through a GWX_TRY.
C21_NoKnownFromMacros ==
    \A t \in Threads :
        ~DEBUG
            => /\ ~byMacro[t]
               /\ trying[t].state # "converted"
               /\ trying[t].state = "passed" => thrown[t] = trying[t].raised
               /\ AtHandlerStart(t)
                    => /\ hargs[t].type = "gwers" => thrown[t].gwers
                       /\ (~thrown[t].gwers /\ thrown[t].std)
                            => /\ hargs[t].type = "std"
                               /\ hargs[t].e = <<>>
                               /\ Len(hargs[t].std) = 1
                       /\ (~thrown[t].gwers /\ ~thrown[t].std)
                            => /\ hargs[t].type = "unknown"
                               /\ hargs[t].e = <<>>
                               /\ hargs[t].std = <<>>

\* without DEBUG, the handler starts on a std::exception that the statement
\* of a GWX_TRY threw
C21_Witness ==
    /\ ~DEBUG
    /\ AtHandlerStart(Main)
    /\ trying[Main].state = "passed"
    /\ trying[Main].raised = OutOfRange
    /\ hargs[Main].type = "std"

C23_RecorderPerThread ==
    [][\A t \in Threads :
         (_stack'[t] # _stack[t] \/ _lock'[t] # _lock[t]) => ThreadsNext(t)]_vars

\* thread t1 holds a locked vector with one function string while thread t2,
\* which started later, has pushed another and is not locked
C23_Witness ==
    /\ _stack["t1"] = <<"first">>
    /\ _lock["t1"]
    /\ pc["t1"] = "idle"
    /\ _stack["t2"] = <<"second">>
    /\ ~_lock["t2"]
    /\ pc["t2"] = "base"

\* sequence a is the beginning of sequence b
IsPrefix(a, b) == Len(a) <= Len(b) /\ SubSeq(b, 1, Len(a)) = a

\* a step in which base_catch is entered: the only caller of Trace::flush
Resets(t) == pc[t] = "idle" /\ pc'[t] = "start"

\* C24: while _lock is true, every step except the flush of the next
\* base_catch call leaves _lock true and only appends to the vector: the
\* vector before the step is a prefix of the vector after it.  So the
\* vector as it was when _lock was set is a prefix of every later one until
\* the flush, and the depth never decreases.
C24_LockedVectorOnlyGrows ==
    [][\A t \in Threads :
         (_lock[t] /\ ~Resets(t))
            => _lock'[t] /\ IsPrefix(_stack[t], _stack'[t])]_vars

\* the handler of an exception thrown inside two functions has entered and
\* left a third: the vector holds the two function strings and the third
C24_Witness ==
    /\ pc[Main] = "handler"
    /\ _lock[Main]
    /\ atRaise[Main].stack = <<"first", "second">>
    /\ scopes[Main] = <<>>
    /\ _stack[Main] = <<"first", "second", "second">>

\* a step in which base_catch returns to its caller
Returns(t) == pc[t] # "idle" /\ pc'[t] = "idle"

\* C25: base_catch does not flush when it returns: the step in which it
\* returns leaves the vector and _lock as they are, and after a call that
\* ended with a Gwers::Exception _lock is true and the vector still begins
\* with the function strings it held when the exception was thrown; nothing
\* changes them before the next base_catch call.
C25_NoFlushOnReturn ==
    [][\A t \in Threads :
         /\ Returns(t)
              => /\ _stack'[t] = _stack[t]
                 /\ _lock'[t] = _lock[t]
                 /\ hargs[t].type = "gwers"
                      => _lock'[t] /\ IsPrefix(atRaise[t].stack, _stack'[t])
         /\ (pc[t] = "idle" /\ ~Resets(t))
              => _stack'[t] = _stack[t] /\ _lock'[t] = _lock[t]]_vars

\* base_catch has returned after a Gwers::Exception thrown inside two
\* functions: _lock is true and the vector holds both function strings
C25_Witness ==
    /\ pc[Main] = "idle"
    /\ outcome[Main] = "threw"
    /\ hargs[Main].type = "gwers"
    /\ _lock[Main]
    /\ _stack[Main] = <<"first", "second">>

\* C26, as stated: when the handler starts with Type::std, what() of the
\* std::exception it is given equals what() of the exception base() threw.
\* (The clause is catch (std::exception e): e is a copy of the std::exception
\* subobject alone, and its what() is the base class's string.)
C26_ForeignDescription ==
    \A t \in Threads :
        (AtHandlerStart(t) /\ hargs[t].type = "std")
            => hargs[t].std[1].msg = thrown[t].msg

\* the handler starts on the std::out_of_range that vector::at threw: the
\* object it is given is a plain std::exception with another what()
C26_Witness ==
    /\ AtHandlerStart(Main)
    /\ hargs[Main].type = "std"
    /\ thrown[Main] = OutOfRange
    /\ hargs[Main].std[1].dyn = "std::exception"
    /\ hargs[Main].std[1].msg # OutOfRange.msg

\* C27: with DEBUG, whatever the statement of GWX_TRY(S,X,L) throws (a
\* Gwers::Exception, a std::exception, anything else) is replaced by X(L):
\* the handler gets Type::gwers with X's who and what and line L.  Without
\* DEBUG the exception S threw reaches base_catch itself and is handed over
\* according to its own class.
C27_TryConverts ==
    \A t \in Threads :
        /\ trying[t].state = "converted" => DEBUG
        /\ trying[t].state = "passed" => ~DEBUG
        /\ (AtHandlerStart(t) /\ trying[t].state = "converted")
             => /\ hargs[t].type = "gwers"
                /\ hargs[t].std = <<>>
                /\ Len(hargs[t].e) = 1
                /\ hargs[t].e[1].who = Make(trying[t].X, trying[t].L).who
                /\ hargs[t].e[1].what = Make(trying[t].X, trying[t].L).what
                /\ hargs[t].e[1].line = trying[t].L
        /\ (AtHandlerStart(t) /\ trying[t].state = "passed")
             => LET o == trying[t].raised
                IN  /\ thrown[t] = o
                    /\ o.gwers => /\ hargs[t].type = "gwers"
                                  /\ hargs[t].e[1].who = o.who
                                  /\ hargs[t].e[1].what = o.what
                                  /\ hargs[t].e[1].line = o.line
                    /\ (~o.gwers /\ o.std) => hargs[t].type = "std"
                    /\ (~o.gwers /\ ~o.std) => hargs[t].type = "unknown"

\* with DEBUG, the statement of GWX_TRY(S,Fake,33) threw int(66): the
\* handler starts on a Gwers::Exception with Fake's fields and line 33
C27_Witness ==
    /\ DEBUG
    /\ AtHandlerStart(Main)
    /\ trying[Main].state = "converted"
    /\ trying[Main].raised = Int66
    /\ hargs[Main].type = "gwers"
    /\ hargs[Main].e = <<Exception_copy(Fake(33))>>

\* C28, as stated: when GWX_TRY has replaced an exception that is no
\* Gwers::Exception, the snapshot the handler finds is exactly the function
\* strings of the Trace objects alive at the GWX_TRY, whatever happened
\* before and after.
C28_SnapshotIsTrySite ==
    \A t \in Threads :
        (/\ AtHandlerStart(t)
         /\ trying[t].state = "converted"
         /\ ~trying[t].raised.gwers)
            => snapshot(t) = atRaise[t].active

\* C28, amended: ... provided _lock was false when the catch clause of
\* GWX_TRY constructed X(L) (no Exception had been constructed earlier in
\* this base_catch call) and no function was entered while X(L) unwound the
\* rest of base(): then the functions deeper than the GWX_TRY have popped
\* their strings before the lock, and the snapshot is exactly the function
\* strings of the Trace objects alive at the GWX_TRY.
C28_SnapshotIsTrySiteUnlocked ==
    \A t \in Threads :
        (/\ AtHandlerStart(t)
         /\ trying[t].state = "converted"
         /\ ~trying[t].raised.gwers
         /\ ~atRaise[t].frozen
         /\ ~atRaise[t].entered)
            => snapshot(t) = atRaise[t].active

\* a std::out_of_range thrown one function deeper than the GWX_TRY has been
\* replaced: the handler finds the string of the function holding the
\* GWX_TRY alone
C28_Witness ==
    /\ AtHandlerStart(Main)
    /\ trying[Main].state = "converted"
    /\ trying[Main].raised = OutOfRange
    /\ trying[Main].deeper = <<"first", "second">>
    /\ atRaise[Main].active = <<"first">>
    /\ ~atRaise[Main].frozen
    /\ snapshot(Main) = <<"first">>

\* a step in which the exception thrown by the handler leaves the handler
Escapes(t) == pc[t] = "hunwind" /\ pc'[t] # "hunwind"

\* C29: an exception thrown by the handler leaves base_catch: once it has
\* unwound the handler, base_catch ends with that same exception in flight;
\* no catch clause of base_catch catches it, the handler has been called
\* once and is not called again, and its arguments stay those of that call.
C29_HandlerExceptionLeaves ==
    [][\A t \in Threads :
         Escapes(t)
            => /\ pc'[t] = "idle"
               /\ thrown[t] # NoException
               /\ thrown'[t] = thrown[t]
               /\ calls[t].handler = 1
               /\ calls'[t] = calls[t]
               /\ hargs'[t] = hargs[t]]_vars

\* the handler, called for a Gwers::Exception, threw a std::out_of_range:
\* base_catch has ended with it in flight after one handler call
C29_Witness ==
    /\ pc[Main] = "idle"
    /\ thrown[Main] = OutOfRange
    /\ hargs[Main].type = "gwers"
    /\ calls[Main] = [base |-> 1, handler |-> 1]

\* C30: under one base_catch call at a time, with Trace objects destroyed in
\* the reverse order of their construction, the destructor of a Trace object
\* that runs while the recorder is not locked finds a string to pop:
\* pop_back is never called on an empty vector.
C30_ReleaseFindsFrame ==
    [][\A t \in Threads :
         (Released(t) /\ ~_lock[t]) => (_stack[t] # <<>> /\ ~ub'[t])]_vars

\* two functions were entered and both left with the recorder unlocked; the
\* second release took the last string
C30_Witness ==
    /\ pc[Main] = "base"
    /\ ~_lock[Main]
    /\ ~ub[Main]
    /\ hist[Main].ok
    /\ Len(hist[Main].labels) = 2
    /\ hist[Main].k = 2
    /\ _stack[Main] = <<>>

(***************************************************************************)
(* GWX_BEGIN(F, a1, ..., an) and Trace::build: the string that is pushed.  *)
(* A string is the sequence of its characters.                             *)
(***************************************************************************)
MaxArgs == 2

\* the F of a GWX_BEGIN: a string literal or __PRETTY_FUNCTION__
Fnames == {<<"f">>, <<"g", "o">>}

\* argument values
ArgValues == {-7, 0, 120}

ArgLists == UNION {[1..n -> ArgValues] : n \in 0..MaxArgs}

Digit(d) == CASE d = 0 -> "0" [] d = 1 -> "1" [] d = 2 -> "2" [] d = 3 -> "3"
              [] d = 4 -> "4" [] d = 5 -> "5" [] d = 6 -> "6" [] d = 7 -> "7"
              [] d = 8 -> "8" [] d = 9 -> "9"

RECURSIVE Decimal(_)
Decimal(n) == IF n < 10 THEN <<Digit(n)>> ELSE Append(Decimal(n \div 10), Digit(n % 10))

\* str << val for an int
Streamed(val) == IF val < 0 THEN <<"-">> \o Decimal(-val) ELSE Decimal(val)

\* a last value that is followed by a comma like the others
Trace_build_end_comma(str, val) == str \o <<"[">> \o Streamed(val) \o <<"]", ",">>

\* a last value that is not written
Trace_build_end_dropped(str, val) == str

\* template<class T> build(str, val):  str << "[" << val << "]";
Trace_build_end(str, val) == str \o <<"[">> \o Streamed(val) \o <<"]">>

\* build(str) {}
\* build(str, val, args...):  str << "[" << val << "],";  build(str, args...);
RECURSIVE Trace_build(_, _)
Trace_build(str, args) ==
    IF args = <<>> THEN str
    ELSE IF Len(args) = 1 THEN Trace_build_end(str, args[1])
    ELSE Trace_build(str \o <<"[">> \o Streamed(args[1]) \o <<"]", ",">>, Tail(args))

\* GWX__tmp__string << F;  Trace::build(GWX__tmp__string, args...);
\* the string handed to the Trace constructor is GWX__tmp__string.str()
GWX_BEGIN_string(F, args) == Trace_build(F, args)

\* a function with GWX_BEGIN(F, args...) at its beginning is called
LabelCall(t, F, args) ==
    /\ ~fcall.active
    /\ IF GWX_BEGIN_declares(DTRACE)
       THEN _stack' = [_stack EXCEPT ![Trace_statics(t)] =
                         Trace_Trace(@, GWX_BEGIN_string(F, args))]
       ELSE UNCHANGED _stack
    /\ fcall' = [active |-> TRUE, F |-> F, args |-> args, pushed |-> args]
    /\ UNCHANGED <<_lock, pc, scopes, thrown, hargs, calls, outcome, pre, atRaise,
                   hist, ub, constructed, guard, last, DEBUG, byMacro, trying,
                   plain, DTRACE, harness>>

\* the function assigns v to its i-th parameter
LabelAssign(t, i, v) ==
    /\ fcall.active
    /\ i \in 1..Len(fcall.args)
    /\ fcall.args[i] # v
    /\ fcall' = [fcall EXCEPT !.args[i] = v]
    /\ UNCHANGED <<_stack, _lock, pc, scopes, thrown, hargs, calls, outcome, pre,
                   atRaise, hist, ub, constructed, guard, last, DEBUG, byMacro,
                   trying, plain, DTRACE, harness>>

\* the function returns; its Trace object, where it has one, is destroyed
LabelReturn(t) ==
    /\ fcall.active
    /\ IF GWX_BEGIN_declares(DTRACE)
       THEN _stack' = [_stack EXCEPT ![Trace_statics(t)] =
                         Trace_dtor(@, _lock[Trace_statics(t)])]
       ELSE UNCHANGED _stack
    /\ fcall' = NoCall
    /\ UNCHANGED <<_lock, pc, scopes, thrown, hargs, calls, outcome, pre, atRaise,
                   hist, ub, constructed, guard, last, DEBUG, byMacro, trying,
                   plain, DTRACE, harness>>

NextLabel ==
    \/ \E F \in Fnames, args \in ArgLists : LabelCall(Main, F, args)
    \/ \E i \in 1..MaxArgs, v \in ArgValues : LabelAssign(Main, i, v)
    \/ LabelReturn(Main)

SpecLabel == Init /\ [][NextLabel]_vars

\* "[a1],[a2],...,[an]": each value in brackets, a comma before each but
\* the first
Bracketed(a, i) ==
    (IF i > 1 THEN <<",">> ELSE <<>>) \o <<"[">> \o Streamed(a[i]) \o <<"]">>

RECURSIVE BracketedUpTo(_, _)
BracketedUpTo(a, n) ==
    IF n = 0 THEN <<>> ELSE BracketedUpTo(a, n - 1) \o Bracketed(a, n)

\* C31: while a function that began with GWX_BEGIN(F, a1, ..., an) is
\* active in a build with DTRACE, the string on the stack is F followed by
\* "[a1],[a2],...,[an]" for the values the arguments had at GWX_BEGIN, in
\* call order, with no comma after the last; F alone where there are no
\* arguments; whatever the function assigned to its parameters since.
C31_LabelBuilt ==
    (fcall.active /\ DTRACE)
        => _stack[Main] = <<fcall.F \o BracketedUpTo(fcall.pushed, Len(fcall.pushed))>>

\* GWX_BEGIN("go", -7, 120) pushed "go[-7],[120]" and both parameters have
\* been assigned other values since
C31_Witness ==
    /\ fcall.active
    /\ fcall.pushed = <<-7, 120>>
    /\ fcall.args = <<0, 0>>
    /\ _stack[Main] = << <<"g", "o", "[", "-", "7", "]", ",", "[", "1", "2", "0", "]">> >>

(***************************************************************************)
(* The unit test harness: UnitTest, UnitTest::Run and the init functions   *)
(* of the unit tests.                                                      *)
(*   _runs           UnitTest::_runs; each Run with its _name, _in, _out   *)
(*                   and _tests                                            *)
(*   UnitTest_count  UnitTest::_count                                      *)
(*   upc             where the harness is: "init" (the init functions      *)
(*                   register), "runs" (loop of UnitTest::execute), "in",  *)
(*                   "tests", "trace", "out", "outpass" (in Run::execute), *)
(*                   "back" (Run::execute has returned), "done", "crashed" *)
(*   run, test       the Run and the test the loops are at (from 1)        *)
(*   iter            the iterator of the trace loop, as an offset from     *)
(*                   Trace::begin()                                        *)
(*   called          the calls made through _in, _out and the test         *)
(*                   pointers, in order, each with the way it ended        *)
(*   visited         the elements the trace loop has written, in order     *)
(*                   (0 for what was read outside the vector)              *)
(*   rets            the values returned by Run::execute, in order         *)
(*   passline        the "unit test(s) passed" line has been written       *)
(*   uub             the harness has executed undefined behaviour          *)
(***************************************************************************)
MaxRuns == 2
MaxTests == 2

\* state the harness leaves alone
beside == <<pc, scopes, thrown, hargs, calls, outcome, pre, atRaise, hist, ub,
            constructed, guard, last, DEBUG, byMacro, trying, plain, DTRACE, fcall>>

\* unit::trace::init:      ut.add("Trace",none,none)
\* unit::exception::init:  ut.add("Exception",nullptr,nullptr)
InitFunctions == {[name |-> "Trace", in |-> "none", out |-> "none"],
                  [name |-> "Exception", in |-> "nullptr", out |-> "nullptr"]}

\* how a test function ends: it returns, or it throws a Gwers::Exception, a
\* std::exception, or something else (UnitTest::Run::Fail)
TestEnds == {"returns", "Gwers", "std", "Fail"}

\* the functions with a GWX_BEGIN that a test function has entered when it ends
TestFrames(n) == [i \in 1..n |-> IF i % 2 = 1 THEN "first" ELSE "second"]

RECURSIVE TestPushed(_, _)
TestPushed(st, frames) ==
    IF frames = <<>> THEN st
    ELSE TestPushed(Trace_Trace(st, Head(frames)), Tail(frames))

RECURSIVE TestReleased(_, _, _)
TestReleased(st, lk, n) ==
    IF n = 0 THEN st ELSE TestReleased(Trace_dtor(st, lk), lk, n - 1)

\* the recorder after a test function that entered n functions has ended
TestLeaves(r, end, n) ==
    LET frames == IF GWX_BEGIN_declares(DTRACE) THEN TestFrames(n) ELSE <<>>
        lk == IF end = "Gwers" THEN Exception_ctor_lock(r.lock) ELSE r.lock
    IN [stack |-> TestReleased(TestPushed(r.stack, frames), lk, Len(frames)),
        lock |-> lk]

\* UnitTest::add:  _runs.emplace_back(name,in,out);
UnitTest_add(runs, name, in, out) ==
    Append(runs, [name |-> name, in |-> in, out |-> out, tests |-> <<>>])

\* UnitTest::Run::add:  _tests.emplace_back(name,test);
Run_add(tests, name) == Append(tests, name)

\* an init function registers its Run
init_add(f) ==
    /\ upc = "init"
    /\ Len(_runs) < MaxRuns
    /\ \A i \in 1..Len(_runs) : _runs[i].name # f.name
    /\ _runs' = UnitTest_add(_runs, f.name, f.in, f.out)
    /\ UNCHANGED <<_stack, _lock, beside, UnitTest_count, upc, run, test, iter, called,
                   visited, rets, passline, uub>>

\* ... and adds a test to it; the test's name is its number in the Run
init_add_test ==
    /\ upc = "init"
    /\ _runs # <<>>
    /\ Len(_runs[Len(_runs)].tests) < MaxTests
    /\ _runs' = [_runs EXCEPT ![Len(_runs)].tests = Run_add(@, Len(@) + 1)]
    /\ UNCHANGED <<_stack, _lock, beside, UnitTest_count, upc, run, test, iter, called,
                   visited, rets, passline, uub>>

\* UnitTest::execute is called:  bool pass {true};  i = _runs.begin()
UnitTest_execute(t) ==
    /\ upc = "init"
    /\ upc' = "runs"
    /\ run' = 1
    /\ UNCHANGED <<_stack, _lock, beside, _runs, UnitTest_count, test, iter, called,
                   visited, rets, passline, uub>>

\* i!=_runs.end():  (*i).execute() is called, or the loop is over with pass
\* still true and the line is written
UnitTest_execute_loop(t) ==
    /\ upc = "runs"
    /\ IF run <= Len(_runs)
       THEN upc' = "in" /\ UNCHANGED passline
       ELSE upc' = "done" /\ passline' = TRUE
    /\ UNCHANGED <<_stack, _lock, beside, _runs, UnitTest_count, run, test, iter, called,
                   visited, rets, uub>>

\* a call through the function pointer fn, made by Run number r, after which
\* control is at next.  A call through a null pointer is undefined: the
\* program stops, or the call does nothing.
CallsHook(what, r, fn, next) ==
    /\ called' = Append(called, [what |-> what, run |-> r, fn |-> fn,
                                 end |-> IF fn = "nullptr" THEN "undefined" ELSE "returns"])
    /\ IF fn = "nullptr"
       THEN /\ uub' = TRUE
            /\ upc' \in {"crashed", next}
       ELSE /\ upc' = next
            /\ UNCHANGED uub

\* Run::execute:  bool ret {true};  std::cout << _name;  _in();
Run_execute_in(t) ==
    /\ upc = "in"
    /\ CallsHook("in", run, _runs[run].in, "tests")
    /\ test' = 1
    /\ UNCHANGED <<_stack, _lock, beside, _runs, UnitTest_count, run, iter, visited,
                   rets, passline>>

\* for (auto i:_tests):  ++(UnitTest::_count);  try { i.second(*this); }
\* catch (Gwers::Exception e) ... catch (std::exception e) ... catch (...)
\* The test function enters n functions and ends as end says.
Run_execute_test(t, end, n) ==
    /\ upc = "tests"
    /\ test <= Len(_runs[run].tests)
    /\ Len(_stack[Trace_statics(t)]) + n <= MaxStack
    /\ UnitTest_count' = UnitTest_count + 1
    /\ called' = Append(called, [what |-> "test", run |-> run,
                                 fn |-> _runs[run].tests[test], end |-> end])
    /\ LET r == TestLeaves(Recorder(Trace_statics(t)), end, n) IN
          /\ _stack' = [_stack EXCEPT ![Trace_statics(t)] = r.stack]
          /\ _lock' = [_lock EXCEPT ![Trace_statics(t)] = r.lock]
    /\ CASE end = "returns" -> upc' = "tests" /\ test' = test + 1 /\ UNCHANGED iter
         [] end = "Gwers" -> upc' = "trace" /\ iter' = 0 /\ UNCHANGED test
         [] OTHER -> upc' = "out" /\ UNCHANGED <<test, iter>>
    /\ UNCHANGED <<beside, _runs, run, visited, rets, passline, uub>>

\* the loop over _tests is over with ret still true
Run_execute_tests_end(t) ==
    /\ upc = "tests"
    /\ test > Len(_runs[run].tests)
    /\ upc' = "outpass"
    /\ UNCHANGED <<_stack, _lock, beside, _runs, UnitTest_count, run, test, iter, called,
                   visited, rets, passline, uub>>

\* an iterator that is advanced once in each pass
Run_execute_trace_advance_once(i) == i + 1

\* the iterator after one pass of the trace loop: ++i in the if statement of
\* the body and ++i of the for statement
Run_execute_trace_advance(i) == i + 2

\* for (auto i = Trace::begin();i!=Trace::end();++i)
\* { std::cout << *i;  if (++i!=Trace::end()) ... else ... }
\* An iterator beyond Trace::end() is undefined behaviour, and so is reading
\* through it: the program stops, or it writes what it finds there and the
\* loop goes on.
Run_execute_trace(t) ==
    LET end == Len(_stack[Trace_statics(t)])
        next == Run_execute_trace_advance(iter)
    IN
    /\ upc = "trace"
    /\ CASE iter = end ->
              /\ upc' = "out"
              /\ UNCHANGED <<iter, visited, uub>>
         [] iter < end ->
              /\ visited' = Append(visited, iter + 1)
              /\ iter' = next
              /\ uub' = (uub \/ next > end)
              /\ UNCHANGED upc
         [] OTHER ->
              /\ uub' = TRUE
              /\ \/ upc' = "crashed" /\ UNCHANGED <<iter, visited>>
                 \/ /\ iter < MaxStack
                    /\ visited' = Append(visited, 0)
                    /\ iter' = next
                    /\ UNCHANGED upc
    /\ UNCHANGED <<_stack, _lock, beside, _runs, UnitTest_count, run, test, called,
                   rets, passline>>

\* in a catch clause:  _out();  ret = false;  break;  ...  return ret;
Run_execute_out(t) ==
    /\ upc = "out"
    /\ CallsHook("out", run, _runs[run].out, "back")
    /\ rets' = IF upc' = "back" THEN Append(rets, FALSE) ELSE rets
    /\ UNCHANGED <<_stack, _lock, beside, _runs, UnitTest_count, run, test, iter,
                   visited, passline>>

\* if (ret) { _out(); std::cout << "\n"; }  return ret;
Run_execute_outpass(t) ==
    /\ upc = "outpass"
    /\ CallsHook("out", run, _runs[run].out, "back")
    /\ rets' = IF upc' = "back" THEN Append(rets, TRUE) ELSE rets
    /\ UNCHANGED <<_stack, _lock, beside, _runs, UnitTest_count, run, test, iter,
                   visited, passline>>

\* a loop that goes on whatever execute returned
UnitTest_execute_breaks_never(ret) == FALSE

\* if (!(*i).execute()) { pass = false; break; }
UnitTest_execute_breaks(ret) == ~ret

\* Run::execute has returned to UnitTest::execute
UnitTest_execute_back(t) ==
    /\ upc = "back"
    /\ IF UnitTest_execute_breaks(rets[Len(rets)])
       THEN upc' = "done" /\ UNCHANGED run
       ELSE upc' = "runs" /\ run' = run + 1
    /\ UNCHANGED <<_stack, _lock, beside, _runs, UnitTest_count, test, iter, called,
                   visited, rets, passline, uub>>

NextUnit ==
    \/ \E f \in InitFunctions : init_add(f)
    \/ init_add_test
    \/ UnitTest_execute(Main)
    \/ UnitTest_execute_loop(Main)
    \/ Run_execute_in(Main)
    \/ \E end \in TestEnds, n \in 0..MaxStack : Run_execute_test(Main, end, n)
    \/ Run_execute_tests_end(Main)
    \/ Run_execute_trace(Main)
    \/ Run_execute_out(Main)
    \/ Run_execute_outpass(Main)
    \/ UnitTest_execute_back(Main)

SpecUnit == Init /\ [][NextUnit]_vars

\* the calls Run number r has made, in order
CallsOf(r) == SelectSeq(called, LAMBDA c : c.run = r)

\* ... to its test functions
TestsOf(r) == SelectSeq(CallsOf(r), LAMBDA c : c.what = "test")

HooksOf(r, what) == SelectSeq(CallsOf(r), LAMBDA c : c.what = what)

\* Run::execute of Run number r has returned
Returned(r) == r <= Len(rets)

\* C32: Run::execute calls its test functions in the order of their
\* registration and none after the first that throws; it calls _in once,
\* before the first test; once a test has thrown or the last has returned it
\* calls _out, once, and nothing after it; it returns true exactly if no test
\* threw, and then every test has been called.
C32_RunExecute ==
    \A r \in 1..Len(_runs) :
        LET mine == CallsOf(r)
            tests == TestsOf(r)
            threw == \E k \in 1..Len(tests) : tests[k].end # "returns"
        IN /\ Len(tests) <= Len(_runs[r].tests)
           /\ \A k \in 1..Len(tests) : tests[k].fn = _runs[r].tests[k]
           /\ \A k \in 1..(Len(tests) - 1) : tests[k].end = "returns"
           /\ mine # <<>> => (mine[1].what = "in" /\ Len(HooksOf(r, "in")) = 1)
           /\ Len(HooksOf(r, "out")) <= 1
           /\ (threw /\ upc \in {"back", "done", "crashed"})
                 => (Len(HooksOf(r, "out")) = 1 /\ mine[Len(mine)].what = "out")
           /\ Returned(r)
                 => /\ Len(HooksOf(r, "out")) = 1
                    /\ mine[Len(mine)].what = "out"
                    /\ rets[r] = ~threw
                    /\ rets[r] => Len(tests) = Len(_runs[r].tests)

\* the first test of the Run "Trace" threw a Gwers::Exception with one
\* string on the stack, and the program has stopped in the trace loop
\* before _out was called
C32_Witness ==
    /\ upc = "crashed"
    /\ _runs[run].in = "none"
    /\ Len(_stack[Main]) = 1
    /\ TestsOf(run) # <<>>
    /\ TestsOf(run)[Len(TestsOf(run))].end = "Gwers"
    /\ HooksOf(run, "out") = <<>>

\* C33: UnitTest::execute executes the Runs in the order of _runs and none
\* after the first whose execute returned false, and the line with the count
\* of passed tests is written exactly if every Run has returned true.
C33_UnitTestExecute ==
    /\ Len(rets) <= Len(_runs)
    /\ \A k \in 1..(Len(rets) - 1) : rets[k]
    /\ LET ins == SelectSeq(called, LAMBDA c : c.what = "in") IN
          /\ \A k \in 1..Len(ins) : ins[k].run = k
          /\ \A k \in 1..Len(rets) : ~rets[k] => Len(ins) = k
    /\ passline => (Len(rets) = Len(_runs) /\ \A k \in 1..Len(rets) : rets[k])
    /\ (upc = "done" /\ Len(rets) = Len(_runs) /\ \A k \in 1..Len(rets) : rets[k])
          => passline

\* two Runs are registered, execute of the first has returned false, and
\* UnitTest::execute is over without the second executed or the line written
C33_Witness ==
    /\ upc = "done"
    /\ Len(_runs) = 2
    /\ rets = <<FALSE>>
    /\ \A k \in 1..Len(called) : called[k].run = 1
    /\ ~passline

\* the last test that was called threw a Gwers::Exception
GwersFailure == called # <<>> /\ called[Len(called)].what = "test"
                              /\ called[Len(called)].end = "Gwers"

\* C34: after a test has thrown a Gwers::Exception the trace loop visits the
\* strings of the stack once each, oldest first: its iterator never goes
\* beyond Trace::end(), nothing is read there, and when the loop is over it
\* has written every string.
C34_TraceLoopVisitsAll ==
    LET end == Len(_stack[Main]) IN
    /\ upc = "trace" => (iter <= end /\ visited = [i \in 1..iter |-> i])
    /\ (upc = "out" /\ GwersFailure) => visited = [i \in 1..end |-> i]
    /\ (upc = "crashed" /\ GwersFailure) => FALSE

\* the test threw with two strings on the stack; the loop is over and has
\* written the first of them only
C34_Witness ==
    /\ upc = "out"
    /\ GwersFailure
    /\ Len(_stack[Main]) = 2
    /\ visited = <<1>>
    /\ ~uub

\* C35: Run::execute calls _in and _out only where they are functions; no
\* call is made through a null pointer.
C35_HooksPresent ==
    \A k \in 1..Len(called) :
        called[k].what \in {"in", "out"} => called[k].fn # "nullptr"

\* execute of the Run "Exception" has called _in, which is nullptr
C35_Witness ==
    /\ called # <<>>
    /\ called[Len(called)] = [what |-> "in", run |-> run, fn |-> "nullptr", end |-> "undefined"]
    /\ _runs[run].name = "Exception"
    /\ uub

=============================================================================
